---- MODULE Spec2Model ----
(***************************************************************************)
(* hapt.py: a MicroPython daemon that attaches to hostapd's per-radio      *)
(* control sockets, follows /var/run/hostapd with inotify, and reports the *)
(* presence of wireless devices to Home Assistant.                         *)
(*                                                                         *)
(* The model is the single-threaded program of src/hapt/files/hapt.py:     *)
(* the one-shot pass, InterfaceWatcher.setup, the poll loop of run (one    *)
(* action per iteration of its for loop), teardown and the SIGINT handler, *)
(* together with the environment they react to (the hostapd directory and  *)
(* the kernel's inotify queue, the frames hostapd sends, the outcome of    *)
(* each control-socket handshake).                                         *)
(***************************************************************************)
EXTENDS Integers, Sequences, FiniteSets, TLC

(***************************************************************************)
(* Bounds of the model.                                                    *)
(***************************************************************************)
\* descriptors 3..MaxFd can be open at once (0..2 are the standard streams);
\* socket() fails with EMFILE beyond that
MaxFd == 5
\* hostapd creates or removes at most this many entries (control sockets,
\* its directory) while the program runs
MaxFsEvents == 2

(***************************************************************************)
(* Program constants.                                                      *)
(***************************************************************************)
\* os.read(fd, 256) in run
ReadSize == 256
\* struct inotify_event 'iIII' is 16 bytes, followed by the name, which the
\* kernel pads with NULs to a multiple of 16 (names here are < 16 bytes)
EventSize == 32

Radios == {"wlan0", "wlan1"}
\* entries that can appear in /var/run/hostapd
Names == Radios \cup {"global"}
Macs == {"AA", "BB"}
FdRange == 3..MaxFd

IN_CREATE == "IN_CREATE"
IN_DELETE == "IN_DELETE"
IN_IGNORED == "IN_IGNORED"
POLLIN == "POLLIN"
POLLHUP == "POLLHUP"
POLLERR == "POLLERR"

\* the values of consider_home_connect / consider_home_disconnect: the
\* timeout passed to call_home_assistant tells the two notifications apart
consider_home_connect == "arrived"
consider_home_disconnect == "departed"

VARIABLES
    pc,                 \* position of the main program
    config,             \* self.config: [hasTrack, track, ifaces]
    clients,            \* self.clients: mac -> set of interfaces
    fds,                \* self.fds: fd -> [kind, name] (the socket is the open fd)
    poll,               \* descriptors registered with self.poll
    openfds,            \* descriptors open in the process
    inotify_fd,         \* self.inotify_fd (0 before setup)
    inotify_wd_parent,  \* self.inotify_wd_parent
    inotify_wd_control, \* self.inotify_wd_control (-1: inotify_add_watch failed)
    dirExists,          \* /var/run/hostapd exists
    files,              \* entries of /var/run/hostapd
    liveWd,             \* the kernel's watch on /var/run/hostapd (0: none)
    nextWd,             \* next watch descriptor the kernel hands out
    queue,              \* unread inotify records
    ready,              \* the descriptors that the rest of the list returned by
                        \* poll.poll() can hold
    budget,             \* file-system events the environment has left
    stations,           \* the devices that are around
    out                 \* what the last step did: the notifications it sent, the
                        \* devices its allow-list tests dropped, the clients it
                        \* detached, the descriptors it read after removing
                        \* them, its calls on the inner watch, the exception
                        \* it raised

vars == <<pc, config, clients, fds, poll, openfds, inotify_fd, inotify_wd_parent,
          inotify_wd_control, dirExists, files, liveWd, nextWd, queue, ready, budget,
          stations, out>>

(***************************************************************************)
(* Helpers.                                                                *)
(***************************************************************************)
Min(a, b) == IF a < b THEN a ELSE b

\* all enumerations of a finite set
RECURSIVE Orders(_)
Orders(S) ==
    IF S = {} THEN {<<>>}
    ELSE UNION {{<<x>> \o t : t \in Orders(S \ {x})} : x \in S}

\* ascending enumeration of a set of integers
RECURSIVE Ascending(_)
Ascending(S) ==
    IF S = {} THEN <<>>
    ELSE LET m == CHOOSE x \in S : \A y \in S : x <= y
         IN <<m>> \o Ascending(S \ {m})

\* some fixed enumeration of a finite set
RECURSIVE Enumerate(_)
Enumerate(S) ==
    IF S = {} THEN <<>>
    ELSE LET m == CHOOSE x \in S : TRUE
         IN <<m>> \o Enumerate(S \ {m})

\* the function f without key k (del f[k])
Del(f, k) == [x \in DOMAIN f \ {k} |-> f[x]]

\* the function f with f[k] = v (f[k] = v on a dict)
Put(f, k, v) == [x \in DOMAIN f \cup {k} |-> IF x = k THEN v ELSE f[x]]

NoReady == {}

NoOut ==
    [emitted |-> <<>>, filtered |-> <<>>, detached |-> <<>>, stale |-> <<>>,
     watch |-> <<>>, raised |-> "none"]

(***************************************************************************)
(* The state the handlers work on, as one record, and the exception a      *)
(* handler raised ("none": it returned).                                   *)
(***************************************************************************)
Cur ==
    [clients |-> clients, fds |-> fds, poll |-> poll, openfds |-> openfds,
     wd_control |-> inotify_wd_control, liveWd |-> liveWd, nextWd |-> nextWd,
     emitted |-> <<>>, filtered |-> <<>>, detached |-> <<>>, stale |-> <<>>,
     watch |-> <<>>, raised |-> "none"]

Raise(s, e) == [s EXCEPT !.raised = e]

\* an allow-list test dropped the device: the handler returns (or continues)
Filtered(s, mac) == [s EXCEPT !.filtered = Append(@, mac)]

(***************************************************************************)
(* Event frames.  A frame is a sequence of symbols: the separators ">" and *)
(* " " and words (runs of other characters), so that handle_message's      *)
(* find('>') and split(' ') are computed as the code computes them.        *)
(***************************************************************************)
Frame(prio, words) ==
    LET RECURSIVE Spaced(_)
        Spaced(ws) ==
            IF ws = <<>> THEN <<>>
            ELSE IF Len(ws) = 1 THEN <<ws[1]>>
            ELSE <<ws[1], " ">> \o Spaced(Tail(ws))
    IN (IF prio THEN <<"<3", ">">> ELSE <<>>) \o Spaced(words)

\* the frames hostapd can send when the devices around are macs
Frames(macs) ==
    {Frame(TRUE, <<"AP-STA-CONNECTED", m>>) : m \in macs}
    \cup {Frame(TRUE, <<"AP-STA-DISCONNECTED", m>>) : m \in macs}
    \cup {Frame(TRUE, <<"CTRL-EVENT-TERMINATING">>),
          Frame(TRUE, <<"AP-STA-CONNECTED">>),
          Frame(TRUE, <<"AP-STA-DISCONNECTED">>),
          <<>>}

\* str.find: index of the first c in msg, counted from 1; 0 when absent
\* (Python's -1, counted from 0)
RECURSIVE Find(_, _)
Find(msg, c) ==
    IF msg = <<>> THEN 0
    ELSE IF Head(msg) = c THEN 1
    ELSE LET r == Find(Tail(msg), c) IN IF r = 0 THEN 0 ELSE r + 1

\* str.split(sep): the pieces between separators, empty pieces included
RECURSIVE Split(_, _)
Split(msg, sep) ==
    LET i == Find(msg, sep)
    IN IF i = 0 THEN <<msg>>
       ELSE <<SubSeq(msg, 1, i - 1)>> \o Split(SubSeq(msg, i + 1, Len(msg)), sep)

\* the string a piece stands for: a piece of the frames above is one word or
\* the empty string
Text(piece) == IF piece = <<>> THEN "" ELSE piece[1]

(***************************************************************************)
(* WirelessDevicesTracker: the presence record.                            *)
(***************************************************************************)
\* The HTTP call is outside the model; the call is recorded with its
\* consider_home argument.
call_home_assistant(s, mac, consider_home) ==
    [s EXCEPT !.emitted = Append(@, <<mac, consider_home>>)]

\* mutant: the allow-list test of on_connect is missing
on_connect_unfiltered(s, interface, mac) ==
    LET c1 == IF mac \notin DOMAIN s.clients THEN Put(s.clients, mac, {})
              ELSE s.clients
        c2 == [c1 EXCEPT ![mac] = @ \cup {interface}]
    IN call_home_assistant([s EXCEPT !.clients = c2], mac, consider_home_connect)

on_connect(s, interface, mac) ==
    IF config.hasTrack /\ mac \notin config.track THEN Filtered(s, mac)
    ELSE LET c1 == IF mac \notin DOMAIN s.clients THEN Put(s.clients, mac, {})
                   ELSE s.clients
             c2 == [c1 EXCEPT ![mac] = @ \cup {interface}]
         IN call_home_assistant([s EXCEPT !.clients = c2], mac, consider_home_connect)

on_disconnect(s, interface, mac) ==
    IF config.hasTrack /\ mac \notin config.track THEN Filtered(s, mac)
    \* self.clients[mac] on an unknown mac, set.remove of a missing element
    ELSE IF mac \notin DOMAIN s.clients THEN Raise(s, "KeyError")
    ELSE IF interface \notin s.clients[mac] THEN Raise(s, "KeyError")
    ELSE LET c2 == [s.clients EXCEPT ![mac] = @ \ {interface}]
             s2 == [s EXCEPT !.clients = c2]
         IN IF Cardinality(c2[mac]) = 0
            THEN call_home_assistant(s2, mac, consider_home_disconnect)
            ELSE s2

handle_message(s, interface, message) ==
    LET components == Split(SubSeq(message, Find(message, ">") + 1, Len(message)), " ")
    IN IF Text(components[1]) = "AP-STA-CONNECTED"
       THEN IF Len(components) < 2 THEN Raise(s, "IndexError")
            ELSE on_connect(s, interface, Text(components[2]))
       ELSE IF Text(components[1]) = "AP-STA-DISCONNECTED"
       THEN IF Len(components) < 2 THEN Raise(s, "IndexError")
            ELSE on_disconnect(s, interface, Text(components[2]))
       ELSE s

(***************************************************************************)
(* Control sockets.  Each handshake's outcome is an input:                 *)
(*   attach: "ok", "bind" (bind raises OSError: the local address of this  *)
(*           second is taken), "connect" (connect raises OSError), "nack"  *)
(*           (the reply is not OK\n)                                       *)
(*   detach: "ok", "send" (send or recv raises OSError), "nack"            *)
(***************************************************************************)
AttachOutcomes == {"ok", "bind", "connect", "nack"}
DetachOutcomes == {"ok", "send", "nack"}

\* the descriptor the next socket() or inotify_init() returns: the lowest
\* one that is not open (0: none is left)
NewFd(open) ==
    IF FdRange \subseteq open THEN 0
    ELSE CHOOSE n \in FdRange : n \notin open /\ \A m \in FdRange : m < n => m \in open

\* returns the state with the socket open, and raised set when the attach
\* failed; the new socket's descriptor is NewFd of the state before
connect_hostapd_socket(s, interface, outcome) ==
    LET fd == NewFd(s.openfds)
    IN IF fd = 0 THEN Raise(s, "OSError")
       ELSE LET s1 == [s EXCEPT !.openfds = @ \cup {fd}]
            IN IF outcome \in {"bind", "connect"} THEN Raise(s1, "OSError")
               ELSE IF outcome # "ok" THEN Raise(s1, "ValueError")
               ELSE s1

\* sock.close() is reached only after the reply was OK\n
disconnect_hostapd_socket(s, fd, outcome) ==
    IF outcome = "send" THEN Raise(s, "OSError")
    ELSE IF outcome # "ok" THEN Raise(s, "ValueError")
    ELSE [s EXCEPT !.openfds = @ \ {fd}]

(***************************************************************************)
(* InterfaceWatcher.                                                       *)
(***************************************************************************)
\* mutant: the include_interfaces test of add_interface is missing
add_interface_unfiltered(s, interface, outcome) ==
    LET fd == NewFd(s.openfds)
        s1 == connect_hostapd_socket(s, interface, outcome)
    IN IF s1.raised # "none" THEN s1
       ELSE [s1 EXCEPT !.fds = Put(@, fd, [kind |-> "hostapd", name |-> interface]),
                       !.poll = @ \cup {fd}]

add_interface(s, interface, outcome) ==
    IF config.ifaces # {} /\ interface \notin config.ifaces THEN s
    ELSE LET fd == NewFd(s.openfds)
             s1 == connect_hostapd_socket(s, interface, outcome)
         IN IF s1.raised # "none" THEN s1
            ELSE [s1 EXCEPT !.fds = Put(@, fd, [kind |-> "hostapd", name |-> interface]),
                            !.poll = @ \cup {fd}]

\* mutant: the detached radio is also taken out of every device's set
remove_interface_fd_purging(s, fd, outcome) ==
    IF fd \notin DOMAIN s.fds THEN Raise(s, "KeyError")
    ELSE LET e == s.fds[fd]
             d == IF e.kind = "hostapd" THEN disconnect_hostapd_socket(s, fd, outcome)
                  ELSE Raise(s, "AttributeError")
             s1 == [d EXCEPT !.raised = "none",
                             !.detached = Append(@, [fd |-> fd, name |-> e.name,
                                                     closed |-> d.raised = "none"])]
         IN [s1 EXCEPT !.poll = @ \ {fd}, !.fds = Del(@, fd),
                       !.clients = [m \in DOMAIN @ |-> @[m] \ {e.name}]]

\* mutant: the entry is deleted from the table but stays registered with poll
remove_interface_fd_registered(s, fd, outcome) ==
    IF fd \notin DOMAIN s.fds THEN Raise(s, "KeyError")
    ELSE LET e == s.fds[fd]
             d == IF e.kind = "hostapd" THEN disconnect_hostapd_socket(s, fd, outcome)
                  ELSE Raise(s, "AttributeError")
             s1 == [d EXCEPT !.raised = "none",
                             !.detached = Append(@, [fd |-> fd, name |-> e.name,
                                                     closed |-> d.raised = "none"])]
         IN [s1 EXCEPT !.fds = Del(@, fd)]

remove_interface_fd(s, fd, outcome) ==
    IF fd \notin DOMAIN s.fds THEN Raise(s, "KeyError")
    ELSE LET e == s.fds[fd]
             \* the inotify entry holds no socket: None.send raises AttributeError
             d == IF e.kind = "hostapd" THEN disconnect_hostapd_socket(s, fd, outcome)
                  ELSE Raise(s, "AttributeError")
             \* except Exception: the failure is printed, not raised
             s1 == [d EXCEPT !.raised = "none",
                             !.detached = Append(@, [fd |-> fd, name |-> e.name,
                                                     closed |-> d.raised = "none"])]
         IN [s1 EXCEPT !.poll = @ \ {fd}, !.fds = Del(@, fd)]

\* remove_interface_fd on each descriptor of fdseq in turn
RECURSIVE RemoveEach(_, _, _)
RemoveEach(s, fdseq, outcomes) ==
    IF fdseq = <<>> \/ s.raised # "none" THEN s
    ELSE RemoveEach(remove_interface_fd(s, Head(fdseq), outcomes[Head(fdseq)]),
                    Tail(fdseq), outcomes)

\* The loops of remove_interface and teardown delete from self.fds while they
\* iterate over it.  MicroPython's dict iterator walks the slots of the hash
\* table and a deletion only marks its slot, so every entry present when the
\* loop starts is visited once.
\* mutant: the entry's kind is compared with the radio name, so no entry matches
remove_interface_by_kind(s, interface, outcomes) ==
    RemoveEach(s, Ascending({fd \in DOMAIN s.fds : s.fds[fd].kind = interface}),
               outcomes)

remove_interface(s, interface, outcomes) ==
    RemoveEach(s, Ascending({fd \in DOMAIN s.fds :
                                s.fds[fd].kind = "hostapd" /\ s.fds[fd].name = interface}),
               outcomes)

\* mutant: the loop stops after the first deletion from the table
teardown_first_only(s, outcomes) ==
    LET all == Ascending({fd \in DOMAIN s.fds : s.fds[fd].kind = "hostapd"})
    IN RemoveEach(s, SubSeq(all, 1, Min(1, Len(all))), outcomes)

teardown(s, outcomes) ==
    RemoveEach(s, Ascending({fd \in DOMAIN s.fds : s.fds[fd].kind = "hostapd"}), outcomes)

\* inotify_add_watch on /var/run/hostapd: the watch of an already watched
\* directory is returned again, a missing directory gives -1
inotify_add_watch(s) ==
    LET s1 == [s EXCEPT !.watch = Append(@, "add")]
    IN IF ~dirExists THEN [s1 EXCEPT !.wd_control = -1]
       ELSE IF s.liveWd # 0 THEN [s1 EXCEPT !.wd_control = s.liveWd]
       ELSE [s1 EXCEPT !.wd_control = s.nextWd, !.liveWd = s.nextWd, !.nextWd = @ + 1]

\* inotify_rm_watch: a watch descriptor that is not live is an error (EINVAL),
\* which the call returns and the code ignores
inotify_rm_watch(s, wd) ==
    LET s1 == [s EXCEPT !.watch = Append(@, "rm")]
    IN IF wd # 0 /\ wd = s.liveWd THEN [s1 EXCEPT !.liveWd = 0] ELSE s1

\* mutant: a removed directory also detaches every client
handle_inotify_proactive(s, ev, attach, outcomes) ==
    IF ev.wd = inotify_wd_parent /\ ev.name = "hostapd"
    THEN LET s1 == IF IN_CREATE \in ev.mask THEN inotify_add_watch(s) ELSE s
         IN IF IN_DELETE \in ev.mask
            THEN teardown(inotify_rm_watch(s1, s1.wd_control),
                          [fd \in DOMAIN s1.fds |-> "ok"])
            ELSE s1
    ELSE IF ev.wd = s.wd_control
    THEN LET s1 == IF IN_CREATE \in ev.mask THEN add_interface(s, ev.name, attach) ELSE s
         IN IF s1.raised = "none" /\ IN_DELETE \in ev.mask
            THEN remove_interface(s1, ev.name, outcomes)
            ELSE s1
    ELSE s

\* ev is the decoded record: [wd, mask, name]
handle_inotify(s, ev, attach, outcomes) ==
    IF ev.wd = inotify_wd_parent /\ ev.name = "hostapd"
    THEN LET s1 == IF IN_CREATE \in ev.mask THEN inotify_add_watch(s) ELSE s
         IN IF IN_DELETE \in ev.mask THEN inotify_rm_watch(s1, s1.wd_control) ELSE s1
    ELSE IF ev.wd = s.wd_control
    THEN LET s1 == IF IN_CREATE \in ev.mask THEN add_interface(s, ev.name, attach) ELSE s
         IN IF s1.raised = "none" /\ IN_DELETE \in ev.mask
            THEN remove_interface(s1, ev.name, outcomes)
            ELSE s1
    ELSE s

\* decode_inotify_event reads the first record of the buffer only: the
\* records that os.read returned after it are dropped
decode_inotify_event(buffer) == Head(buffer)

\* os.read(fd, 256) returns as many whole records as fit
ReadCount == Min(Len(queue), ReadSize \div EventSize)

\* mutant: the test 'fd not in self.fds' is missing, self.fds[fd] raises
run_body_no_skip(s, fd, event, detach, recv, attach, outcomes) ==
    IF fd \notin DOMAIN s.fds THEN Raise(s, "KeyError")
    ELSE LET e == s.fds[fd]
             s1 == IF event \cap {POLLHUP, POLLERR} # {}
                   THEN remove_interface_fd(s, fd, detach)
                   ELSE s
             s2 == IF fd \in DOMAIN s1.fds THEN s1
                   ELSE [s1 EXCEPT !.stale = Append(@, fd)]
         IN IF s1.raised # "none" THEN s1
            ELSE IF e.kind = "hostapd"
            THEN IF recv = <<"OSError">> THEN Raise(s2, "OSError")
                 ELSE handle_message(s2, e.name, recv)
            ELSE IF e.kind = "inotify"
            THEN handle_inotify(s2, decode_inotify_event(SubSeq(queue, 1, ReadCount)),
                                attach, outcomes)
            ELSE s1

\* one iteration of the for loop of run, for the ready entry (fd, event):
\*   detach   outcome of the DETACH handshake of the hang-up path
\*   recv     what fd_obj.recv returns: a frame, or <<"OSError">> (it raises)
\*   attach   outcome of the ATTACH handshake of a created radio
\*   outcomes outcome of the DETACH handshake of each client of a removed radio
run_body(s, fd, event, detach, recv, attach, outcomes) ==
    IF fd \notin DOMAIN s.fds THEN s
    ELSE LET e == s.fds[fd]
             s1 == IF event \cap {POLLHUP, POLLERR} # {}
                   THEN remove_interface_fd(s, fd, detach)
                   ELSE s
             \* a read through an entry that was just removed from the table
             s2 == IF fd \in DOMAIN s1.fds THEN s1
                   ELSE [s1 EXCEPT !.stale = Append(@, fd)]
         IN IF s1.raised # "none" THEN s1
            ELSE IF e.kind = "hostapd"
            THEN IF recv = <<"OSError">> THEN Raise(s2, "OSError")
                 ELSE handle_message(s2, e.name, recv)
            ELSE IF e.kind = "inotify"
            THEN handle_inotify(s2, decode_inotify_event(SubSeq(queue, 1, ReadCount)),
                                attach, outcomes)
            ELSE s1

\* on_connect for each reported device of one radio (oneshot, lines 272-275)
RECURSIVE ConnectEach(_, _, _)
ConnectEach(s, interface, macs) ==
    IF macs = <<>> THEN s
    ELSE ConnectEach(IF config.track # {} /\ Head(macs) \notin config.track
                     THEN Filtered(s, Head(macs))
                     ELSE on_connect(s, interface, Head(macs)),
                     interface, Tail(macs))

\* mutant: only the first entry of the listing is looked at
oneshot_first_only(s, listing, reports) ==
    IF listing = <<>> THEN s
    ELSE LET interface == Head(listing)
         IN IF interface = "global" THEN s
            ELSE IF config.ifaces # {} /\ interface \notin config.ifaces THEN s
            ELSE ConnectEach(s, interface, reports[interface])

\* listing is listdir('/var/run/hostapd'), reports[r] is get_connected_clients(r)
RECURSIVE oneshot(_, _, _)
oneshot(s, listing, reports) ==
    IF listing = <<>> THEN s
    ELSE LET interface == Head(listing)
         IN oneshot(IF interface = "global" THEN s
                    ELSE IF config.ifaces # {} /\ interface \notin config.ifaces THEN s
                    ELSE ConnectEach(s, interface, reports[interface]),
                    Tail(listing), reports)

\* the loop of setup over listdir('/var/run/hostapd') (lines 179-181)
RECURSIVE AttachEach(_, _, _)
AttachEach(s, listing, attach) ==
    IF listing = <<>> \/ s.raised # "none" THEN s
    ELSE AttachEach(IF Head(listing) # "global"
                    THEN add_interface(s, Head(listing),
                                       IF Head(listing) \in DOMAIN attach
                                       THEN attach[Head(listing)] ELSE "ok")
                    ELSE s,
                    Tail(listing), attach)

(***************************************************************************)
(* The state machine.                                                      *)
(***************************************************************************)
EmptyMap == [x \in {} |-> {}]

Configs ==
    {[hasTrack |-> h, track |-> (IF h THEN {"AA"} ELSE {}), ifaces |-> i] :
        h \in BOOLEAN, i \in {{}, {"wlan0"}}}

\* The runs explored: devices come and go while hostapd's directory stays as
\* it is; hostapd's directory changes while no device is around; one device
\* is around while the directory changes once; hostapd, started with both
\* radios and no filter, removes them and its directory (three changes) while
\* no device is around.
Scenarios ==
    {[stations |-> Macs, budget |-> 0, configs |-> Configs, files |-> SUBSET Names],
     [stations |-> {}, budget |-> MaxFsEvents,
      configs |-> {c \in Configs : ~c.hasTrack}, files |-> SUBSET Names],
     [stations |-> {"AA"}, budget |-> 1,
      configs |-> {c \in Configs : c.ifaces = {}}, files |-> SUBSET Names],
     [stations |-> {}, budget |-> 3,
      configs |-> {c \in Configs : ~c.hasTrack /\ c.ifaces = {}},
      files |-> {Radios}]}

Init ==
    /\ pc = "oneshot"
    /\ clients = EmptyMap
    /\ fds = EmptyMap
    /\ poll = {}
    /\ openfds = {}
    /\ inotify_fd = 0
    /\ inotify_wd_parent = 0
    /\ inotify_wd_control = 0
    /\ dirExists \in BOOLEAN
    /\ liveWd = 0
    /\ nextWd = 1
    /\ queue = <<>>
    /\ ready = NoReady
    /\ \E sc \in Scenarios :
          /\ stations = sc.stations
          /\ budget = sc.budget
          /\ config \in sc.configs
          /\ files \in (IF dirExists THEN sc.files ELSE {{}})
    /\ out = NoOut

\* the handler's state record becomes the program's state
Commit(s) ==
    /\ clients' = s.clients
    /\ fds' = s.fds
    /\ poll' = s.poll
    /\ openfds' = s.openfds
    /\ inotify_wd_control' = s.wd_control
    /\ liveWd' = s.liveWd
    /\ nextWd' = s.nextWd

Done(s) ==
    [emitted |-> s.emitted, filtered |-> s.filtered, detached |-> s.detached,
     stale |-> s.stale, watch |-> s.watch, raised |-> s.raised]

\* a handshake with a radio whose control socket is gone cannot succeed
AttachChoices(name) == IF name \in files THEN AttachOutcomes ELSE {"bind", "connect"}

\* the entries of /var/run/hostapd that oneshot queries and setup attaches
InScope ==
    {n \in files : n # "global" /\ (config.ifaces = {} \/ n \in config.ifaces)}

\* the one-shot pass when reports[r] are the devices radio r reports
OneshotResult(reports) ==
    oneshot(Cur, Enumerate(files), [r \in InScope |-> Enumerate(reports[r])])

OneshotPass(reports) ==
    /\ pc = "oneshot"
    /\ dirExists
    /\ clients' = OneshotResult(reports).clients
    /\ out' = Done(OneshotResult(reports))
    /\ pc' \in {"setup", "finished"}

\* tracker.oneshot(), then monitor() when --monitor was given
Oneshot ==
    /\ pc = "oneshot"
    /\ IF ~dirExists
       THEN \* listdir raises OSError, which nothing catches
            /\ pc' = "crashed"
            /\ out' = [NoOut EXCEPT !.raised = "OSError"]
            /\ UNCHANGED clients
       ELSE \E reports \in [InScope -> SUBSET stations] : OneshotPass(reports)
    /\ UNCHANGED <<config, fds, poll, openfds, inotify_fd, inotify_wd_parent,
                   inotify_wd_control, dirExists, files, liveWd, nextWd, queue, ready,
                   budget, stations>>

\* InterfaceWatcher.setup.  late are the entries created after the inner
\* watch was added and before listdir ran: they are listed and also queued.
Setup ==
    /\ pc = "setup"
    /\ LET ifd == NewFd(openfds)
           s0 == [Cur EXCEPT !.openfds = @ \cup {ifd}, !.nextWd = nextWd + 1]
           s1 == inotify_add_watch(s0)
           s2 == [s1 EXCEPT !.fds = Put(@, ifd, [kind |-> "inotify", name |-> "None"]),
                            !.poll = @ \cup {ifd}]
       IN /\ inotify_fd' = ifd
          /\ inotify_wd_parent' = nextWd
          /\ IF ~dirExists
             THEN /\ Commit(s2)
                  /\ pc' = "crashed"
                  /\ out' = [NoOut EXCEPT !.raised = "OSError"]
                  /\ queue' = queue
                  /\ budget' = budget
             ELSE \E listing \in Orders(files), late \in SUBSET files :
                  \E attach \in [InScope -> AttachOutcomes] :
                      LET s3 == AttachEach(s2, listing, attach)
                      IN /\ Cardinality(late) <= budget
                         /\ budget' = budget - Cardinality(late)
                         /\ Commit(s3)
                         /\ pc' = IF s3.raised = "none" THEN "poll" ELSE "crashed"
                         /\ out' = Done(s3)
                         /\ queue' = [i \in 1..Cardinality(late) |->
                                        [wd |-> s3.wd_control, mask |-> {IN_CREATE},
                                         name |-> Enumerate(late)[i]]]
    /\ UNCHANGED <<config, dirExists, files, ready, stations>>

\* the events poll can report for a descriptor: the inotify descriptor is
\* readable while records are queued; a control socket can have a frame or
\* be hung up (POLLERR takes the same branch of run as POLLHUP); an entry
\* whose descriptor has left the table is skipped whatever its event
EventChoices(fd) ==
    IF fd \notin DOMAIN fds THEN {{POLLIN}}
    ELSE IF fds[fd].kind = "inotify"
    THEN IF queue # <<>> THEN {{POLLIN}} ELSE {}
    ELSE {{POLLIN}, {POLLHUP}}

\* the descriptors the list returned by self.poll.poll() can hold
Pollable == {fd \in poll : EventChoices(fd) # {}}

\* recv raises OSError instead of returning a frame
RecvError == <<"OSError">>

\* what recv can do on the ready socket: a closed socket raises, a socket
\* in error may raise or still deliver a frame
RecvChoices(fd, event, detach) ==
    IF event \cap {POLLHUP, POLLERR} = {} THEN Frames(stations)
    ELSE IF detach = "ok" THEN {RecvError}
    ELSE Frames(stations) \cup {RecvError}

\* what the handlers leave unchanged
LoopFrame ==
    UNCHANGED <<config, inotify_fd, inotify_wd_parent, dirExists, files, budget, stations>>

\* An exception leaves the while loop: run prints it and returns.  Otherwise
\* the for loop goes on with the rest of the list, if poll returned more, or
\* the loop polls again.  rest are the descriptors the rest of the list can hold.
LoopOn(s, rest) ==
    IF s.raised # "none"
    THEN pc' = "teardown" /\ ready' = NoReady
    ELSE \/ pc' = "poll" /\ ready' = NoReady
         \/ rest # {} /\ pc' = "dispatch" /\ ready' = rest

\* the for loop reaches an entry whose descriptor has left the table (line 188)
SkippedResult(fd) ==
    run_body(Cur, fd, {POLLIN}, "ok", RecvError, "ok", EmptyMap)

Skipped(fd) ==
    /\ fd \notin DOMAIN fds
    /\ Commit(SkippedResult(fd))
    /\ out' = Done(SkippedResult(fd))
    /\ queue' = queue
    /\ LoopFrame

\* the for loop reaches the entry (fd, event) of a control socket
HostapdResult(fd, event, detach, recv) ==
    run_body(Cur, fd, event, detach, recv, "ok", EmptyMap)

HostapdReady(fd, event, detach, recv) ==
    /\ fd \in DOMAIN fds
    /\ fds[fd].kind = "hostapd"
    /\ Commit(HostapdResult(fd, event, detach, recv))
    /\ out' = Done(HostapdResult(fd, event, detach, recv))
    /\ queue' = queue
    /\ LoopFrame

\* the for loop reaches the entry of the inotify descriptor: os.read takes
\* the queued records
InotifyResult(fd, attach, outcomes) ==
    run_body(Cur, fd, {POLLIN}, "ok", RecvError, attach, outcomes)

InotifyReady(fd, attach, outcomes) ==
    /\ fd \in DOMAIN fds
    /\ fds[fd].kind = "inotify"
    /\ queue # <<>>
    /\ Commit(InotifyResult(fd, attach, outcomes))
    /\ out' = Done(InotifyResult(fd, attach, outcomes))
    /\ queue' = SubSeq(queue, ReadCount + 1, Len(queue))
    /\ LoopFrame

\* the clients attached to radio r
ClientsOf(f, r) == {fd \in DOMAIN f : f[fd].kind = "hostapd" /\ f[fd].name = r}

\* one iteration of the for loop of run (lines 187-199) on the entry (fd, event)
Iterate(fd, event, rest) ==
    \/ /\ Skipped(fd)
       /\ LoopOn(SkippedResult(fd), rest)
    \/ /\ fd \in DOMAIN fds
       /\ fds[fd].kind = "hostapd"
       /\ \E detach \in (IF event \cap {POLLHUP, POLLERR} # {} THEN DetachOutcomes
                         ELSE {"ok"}) :
          \E recv \in RecvChoices(fd, event, detach) :
             /\ HostapdReady(fd, event, detach, recv)
             /\ LoopOn(HostapdResult(fd, event, detach, recv), rest)
    \/ /\ fd \in DOMAIN fds
       /\ fds[fd].kind = "inotify"
       /\ queue # <<>>
       /\ \E attach \in AttachChoices(Head(queue).name) :
          \E outcomes \in [ClientsOf(fds, Head(queue).name) -> DetachOutcomes] :
             /\ InotifyReady(fd, attach, outcomes)
             /\ LoopOn(InotifyResult(fd, attach, outcomes), rest)

\* poll returns (line 187) and the loop handles the first ready descriptor
Wake ==
    /\ pc = "poll"
    /\ \E fd \in Pollable :
       \E event \in EventChoices(fd) :
          Iterate(fd, event, Pollable \ {fd})

\* the loop handles the next ready descriptor of the same wake-up
Step ==
    /\ pc = "dispatch"
    /\ \E fd \in ready :
       \E event \in EventChoices(fd) :
          Iterate(fd, event, ready \ {fd})

\* the control-socket entries of a descriptor table
ClientsOfAny(f) == {fd \in DOMAIN f : f[fd].kind = "hostapd"}

HostapdFds == ClientsOfAny(fds)

\* monitor: self.watcher.teardown() after run returned (line 281)
Teardown ==
    /\ pc = "teardown"
    /\ \E outcomes \in [HostapdFds -> DetachOutcomes] :
          LET s == teardown(Cur, outcomes)
          IN /\ Commit(s)
             /\ out' = Done(s)
    /\ pc' = "done"
    /\ UNCHANGED <<config, inotify_fd, inotify_wd_parent, dirExists, files, queue, ready,
                   budget, stations>>

\* SIGINT: exit runs teardown and sys.exit() (lines 283-285).  The handler
\* is taken between two steps of the main program, once self.watcher is set.
Sigint ==
    /\ pc \in {"poll", "dispatch", "teardown"}
    /\ \E outcomes \in [HostapdFds -> DetachOutcomes] :
          LET s == teardown(Cur, outcomes)
          IN /\ Commit(s)
             /\ out' = Done(s)
    /\ pc' = "exited"
    /\ ready' = NoReady
    /\ UNCHANGED <<config, inotify_fd, inotify_wd_parent, dirExists, files, queue,
                   budget, stations>>

(***************************************************************************)
(* The environment: hostapd creates and removes its control sockets and    *)
(* its directory; the kernel queues a record for each live watch.          *)
(***************************************************************************)
Running == pc \in {"setup", "poll", "dispatch"}

EnvFrame ==
    /\ budget > 0
    /\ budget' = budget - 1
    /\ out' = NoOut
    /\ UNCHANGED <<pc, config, clients, fds, poll, openfds, inotify_fd,
                   inotify_wd_parent, inotify_wd_control, nextWd, ready, stations>>

Record(wd, flag, name) == [wd |-> wd, mask |-> {flag}, name |-> name]

CreateFile ==
    /\ Running
    /\ dirExists
    /\ \E n \in Names \ files :
          /\ files' = files \cup {n}
          /\ queue' = IF liveWd # 0 THEN Append(queue, Record(liveWd, IN_CREATE, n))
                      ELSE queue
    /\ UNCHANGED <<dirExists, liveWd>>
    /\ EnvFrame

RemoveFile ==
    /\ Running
    /\ \E n \in files :
          /\ files' = files \ {n}
          /\ queue' = IF liveWd # 0 THEN Append(queue, Record(liveWd, IN_DELETE, n))
                      ELSE queue
    /\ UNCHANGED <<dirExists, liveWd>>
    /\ EnvFrame

\* rmdir of the empty directory: the parent watch reports the removal and the
\* kernel drops the watch on the directory itself
RemoveDir ==
    /\ Running
    /\ dirExists
    /\ files = {}
    /\ dirExists' = FALSE
    /\ liveWd' = 0
    /\ queue' = IF inotify_fd # 0
                THEN Append(queue, Record(inotify_wd_parent, IN_DELETE, "hostapd"))
                ELSE queue
    /\ UNCHANGED files
    /\ EnvFrame

CreateDir ==
    /\ Running
    /\ ~dirExists
    /\ dirExists' = TRUE
    /\ queue' = IF inotify_fd # 0
                THEN Append(queue, Record(inotify_wd_parent, IN_CREATE, "hostapd"))
                ELSE queue
    /\ UNCHANGED <<files, liveWd>>
    /\ EnvFrame

Next ==
    \/ Oneshot
    \/ Setup
    \/ Wake
    \/ Step
    \/ Teardown
    \/ Sigint
    \/ CreateFile
    \/ RemoveFile
    \/ RemoveDir
    \/ CreateDir

Spec == Init /\ [][Next]_vars

(***************************************************************************)
(* Properties.                                                             *)
(***************************************************************************)
Count(seq, x) == Cardinality({i \in 1..Len(seq) : seq[i] = x})

\* the device's associated-radio set: empty when it has no record
RadiosOf(c, m) == IF m \in DOMAIN c THEN c[m] ELSE {}

ConnectedFrame(m) == Frame(TRUE, <<"AP-STA-CONNECTED", m>>)
DisconnectedFrame(m) == Frame(TRUE, <<"AP-STA-DISCONNECTED", m>>)

\* C1: in every step, "arrived" is notified for a device exactly once if the
\* step takes its radio set from empty to non-empty and not at all otherwise,
\* and "departed" exactly once if the step takes the set from non-empty to
\* empty and not at all otherwise.
C1_NotifiedOncePerInterval ==
    [][\A m \in Macs :
          LET before == RadiosOf(clients, m) # {}
              after == RadiosOf(clients', m) # {}
          IN /\ Count(out'.emitted, <<m, consider_home_connect>>)
                   = (IF ~before /\ after THEN 1 ELSE 0)
             /\ Count(out'.emitted, <<m, consider_home_disconnect>>)
                   = (IF before /\ ~after THEN 1 ELSE 0)]_vars

\* C2: a device is a key of the presence record only if its radio set is
\* not empty (a device without a key has the empty set).
C2_KeyIffNonEmpty == \A m \in DOMAIN clients : clients[m] # {}

\* C3: a step that receives a disconnected frame for a device on a radio that
\* is not in the device's set leaves the presence record unchanged, notifies
\* nothing, raises nothing, and the loop goes on.
C3_StrayDisconnectIsNoOp ==
    [][\A fd \in DOMAIN fds : \A m \in Macs :
          (/\ pc \in {"poll", "dispatch"}
           /\ HostapdReady(fd, {POLLIN}, "ok", DisconnectedFrame(m))
           /\ fds[fd].name \notin RadiosOf(clients, m))
          => /\ clients' = clients
             /\ out'.emitted = <<>>
             /\ out'.raised = "none"
             /\ pc' \in {"poll", "dispatch"}]_vars

\* C4: the descriptor table holds at most one control-socket entry per radio.
C4_OneClientPerRadio == \A r \in Names : Cardinality(ClientsOf(fds, r)) <= 1

\* C5: a step on a control socket that reports hang-up or error removes it
\* from the table and from poll, reads nothing from it, raises nothing, and
\* the loop goes on.
C5_HangupOnlyRemoves ==
    [][\A fd \in DOMAIN fds : \A detach \in DetachOutcomes :
       \A recv \in Frames(stations) \cup {RecvError} :
          (/\ pc \in {"poll", "dispatch"}
           /\ HostapdReady(fd, {POLLHUP}, detach, recv))
          => /\ fd \notin DOMAIN fds'
             /\ fd \notin poll'
             /\ out'.stale = <<>>
             /\ out'.raised = "none"
             /\ pc' \in {"poll", "dispatch"}]_vars

\* C6: a step that handles a created radio whose ATTACH is not acknowledged
\* with OK\n leaves the descriptor table, the poll registrations and the set
\* of open descriptors as they were.
C6_FailedAttachLeavesNothing ==
    [][(/\ pc \in {"poll", "dispatch"}
        /\ queue # <<>>
        /\ Head(queue).wd = inotify_wd_control
        /\ IN_CREATE \in Head(queue).mask
        /\ InotifyReady(inotify_fd, "nack", EmptyMap))
       => /\ fds' = fds
          /\ poll' = poll
          /\ openfds' = openfds]_vars

\* C7: after a step, every control socket it detached is closed, unregistered
\* and out of the descriptor table, whatever the DETACH handshake did.
C7_DetachAlwaysReleases ==
    \A i \in 1..Len(out.detached) :
        /\ out.detached[i].fd \notin openfds
        /\ out.detached[i].fd \notin poll
        /\ out.detached[i].fd \notin DOMAIN fds

\* C8: an exception in a step of the loop ends the loop (run returns to
\* monitor), and monitor's teardown then leaves no control-socket entry in
\* the table and detaches each client that was registered exactly once.
C8_TeardownAfterFatal ==
    [][/\ (pc \in {"poll", "dispatch"} /\ out'.raised # "none") => pc' = "teardown"
       /\ pc = "teardown" => pc' \in {"done", "exited"}
       /\ (pc = "teardown" /\ pc' = "done")
          => /\ ClientsOfAny(fds') = {}
             /\ Len(out'.detached) = Cardinality(ClientsOfAny(fds))
             /\ \A fd \in ClientsOfAny(fds) :
                   Cardinality({i \in 1..Len(out'.detached) :
                                   out'.detached[i].fd = fd}) = 1]_vars

\* C8 witness: the loop ended on an exception and teardown detached two clients.
C8_Witness ==
    /\ pc = "done"
    /\ Len(out.detached) = 2

\* C9: after SIGINT's teardown nothing is left open or registered: no
\* descriptor in the table or in poll, no open descriptor, no live watch.
C9_ExitLeavesNothing ==
    pc = "exited" =>
        /\ DOMAIN fds = {}
        /\ poll = {}
        /\ openfds = {}
        /\ liveWd = 0

\* a step of the loop reads the inotify descriptor (nothing else takes
\* records off the queue) and the record it decodes is an inner-watch
\* "removed" record
RemovedHandled ==
    /\ pc \in {"poll", "dispatch"}
    /\ queue # <<>>
    /\ queue' = SubSeq(queue, ReadCount + 1, Len(queue))
    /\ ~(Head(queue).wd = inotify_wd_parent /\ Head(queue).name = "hostapd")
    /\ Head(queue).wd = inotify_wd_control
    /\ IN_DELETE \in Head(queue).mask

\* C10: a step that handles an inner-watch "removed" record for radio R
\* leaves no control-socket entry for R, detaches each client of R once,
\* leaves every other entry and registration as it was and raises nothing;
\* when R has no client the step changes nothing.
C10_RemovedDetachesRadio ==
    [][RemovedHandled
       => LET gone == ClientsOf(fds, Head(queue).name)
          IN /\ ClientsOf(fds', Head(queue).name) = {}
             /\ DOMAIN fds' = DOMAIN fds \ gone
             /\ \A fd \in DOMAIN fds' : fds'[fd] = fds[fd]
             /\ poll' = poll \ gone
             /\ {out'.detached[i].fd : i \in 1..Len(out'.detached)} = gone
             /\ Len(out'.detached) = Cardinality(gone)
             /\ out'.raised = "none"
             /\ pc' \in {"poll", "dispatch"}
             /\ clients' = clients
             /\ gone = {} => fds' = fds /\ poll' = poll /\ openfds' = openfds]_vars

\* C10 witness: the loop goes on after a step that detached a client without
\* a hang-up (nothing was read from a removed descriptor, nothing raised):
\* the step handled a "removed" record.
C10_Witness ==
    /\ pc \in {"poll", "dispatch"}
    /\ Len(out.detached) >= 1
    /\ out.stale = <<>>
    /\ out.raised = "none"

\* C11: when a device allow-list is configured, a device that is not in it
\* never has a record in the presence mapping and no notification of the
\* last step names it.
C11_UntrackedNeverSeen ==
    config.hasTrack =>
        \A m \in Macs \ config.track :
            /\ m \notin DOMAIN clients
            /\ \A i \in 1..Len(out.emitted) : out.emitted[i][1] # m

\* C11 witness: with an allow-list configured, a step of the live loop
\* received a frame for a device that is not in it and dropped it.
C11_Witness ==
    /\ config.hasTrack
    /\ pc \in {"poll", "dispatch"}
    /\ out.filtered # <<>>
    /\ \A i \in 1..Len(out.filtered) : out.filtered[i] \notin config.track

\* C12: when a radio allow-list is configured, every radio named by a
\* control-socket entry of the descriptor table and every radio in a device's
\* set belongs to the allow-list.
C12_OnlyAllowedRadios ==
    config.ifaces # {} =>
        /\ \A fd \in DOMAIN fds : fds[fd].kind = "hostapd" => fds[fd].name \in config.ifaces
        /\ \A m \in DOMAIN clients : clients[m] \subseteq config.ifaces

\* C12 witness: with the allow-list {wlan0}, wlan1 exists next to wlan0, the
\* loop has consumed a change record of the directory and wlan0 is attached.
C12_Witness ==
    /\ config.ifaces = {"wlan0"}
    /\ {"wlan0", "wlan1"} \subseteq files
    /\ pc = "poll"
    /\ queue = <<>>
    /\ budget < MaxFsEvents
    /\ stations = {}
    /\ ClientsOf(fds, "wlan0") # {}

\* C13: with no filter configured, the one-shot pass leaves in the presence
\* record exactly the devices that the radios of the directory ('global'
\* aside) report, each with exactly the set of radios that reported it.
C13_StartupReconciliation ==
    [][(pc = "oneshot" /\ dirExists /\ ~config.hasTrack /\ config.ifaces = {})
       => \A reports \in [files \ {"global"} -> SUBSET stations] :
             OneshotPass(reports)
             => clients' = [m \in UNION {reports[r] : r \in DOMAIN reports} |->
                              {r \in DOMAIN reports : m \in reports[r]}]]_vars

\* C13 witness: no filter, wlan0 is the only radio and reported AA and BB:
\* the program that ran only the one-shot pass holds exactly AA and BB, each
\* with {wlan0}.
C13_Witness ==
    /\ pc = "finished"
    /\ ~config.hasTrack
    /\ config.ifaces = {}
    /\ files \ {"global"} = {"wlan0"}
    /\ clients = [m \in {"AA", "BB"} |-> {"wlan0"}]

\* C14: between handler steps the descriptors of the descriptor table are
\* exactly the descriptors registered with poll.
C14_TableEqualsPoll == DOMAIN fds = poll

\* C14 witness: the loop goes on after a step that detached a client while
\* the inotify entry and another client remain in the table.
C14_Witness ==
    /\ pc \in {"poll", "dispatch"}
    /\ out.detached # <<>>
    /\ Cardinality(DOMAIN fds) >= 2

\* C15: once the loop has taken every queued change record and waits in poll,
\* the inner watch is live iff /var/run/hostapd exists, and the handle the
\* program holds is the live watch.
C15_InnerWatchIffDirectory ==
    (pc = "poll" /\ queue = <<>>) =>
        /\ (liveWd # 0) <=> dirExists
        /\ liveWd # 0 => inotify_wd_control = liveWd

\* a step of the loop reads the inotify descriptor and the record it decodes
\* is the outer watch's "removed" record of the directory hostapd
ParentRemovedHandled ==
    /\ pc \in {"poll", "dispatch"}
    /\ queue # <<>>
    /\ queue' = SubSeq(queue, ReadCount + 1, Len(queue))
    /\ Head(queue).wd = inotify_wd_parent
    /\ Head(queue).name = "hostapd"
    /\ IN_DELETE \in Head(queue).mask

\* C16: a step that handles the outer watch's "removed" record of the
\* directory removes the inner watch and nothing else: the descriptor table,
\* the poll registrations, the open descriptors and the presence record are
\* as before, no client is detached, nothing is raised.
C16_DirectoryRemovedIsReactive ==
    [][ParentRemovedHandled
       => /\ fds' = fds
          /\ poll' = poll
          /\ openfds' = openfds
          /\ clients' = clients
          /\ out'.detached = <<>>
          /\ out'.raised = "none"
          /\ out'.watch = <<"rm">>
          /\ liveWd' = 0
          /\ pc' \in {"poll", "dispatch"}]_vars

\* C16 witness: the last step called inotify_rm_watch and detached nothing
\* while a control-socket client is still in the table.
C16_Witness ==
    /\ pc \in {"poll", "dispatch"}
    /\ out.watch = <<"rm">>
    /\ out.detached = <<>>
    /\ ~dirExists
    /\ HostapdFds # {}

\* frames that carry no device identifier, and the empty frame
MalformedFrames ==
    {Frame(TRUE, <<"AP-STA-CONNECTED">>), Frame(TRUE, <<"AP-STA-DISCONNECTED">>), <<>>}

\* C17: a step that receives a malformed frame leaves the presence record
\* unchanged, notifies nothing, raises nothing, and the loop goes on.
C17_MalformedFrameDropped ==
    [][\A fd \in DOMAIN fds : \A frame \in MalformedFrames :
          (/\ pc \in {"poll", "dispatch"}
           /\ HostapdReady(fd, {POLLIN}, "ok", frame))
          => /\ clients' = clients
             /\ out'.emitted = <<>>
             /\ out'.raised = "none"
             /\ pc' \in {"poll", "dispatch"}]_vars

\* C18: within a wake-up, a pending entry of the ready list whose descriptor
\* is in the descriptor table after a step was in it before the step with
\* the same client and was not detached by the step, and the pending entries
\* only shrink; a pending entry whose descriptor has left the table is
\* skipped: nothing changes, nothing is raised and the loop goes on.
C18_ReadyListTolerant ==
    [][/\ pc' = "dispatch"
          => \A fd \in ready' :
                fd \in DOMAIN fds'
                => /\ fd \in DOMAIN fds
                   /\ fds'[fd] = fds[fd]
                   /\ \A i \in 1..Len(out'.detached) : out'.detached[i].fd # fd
       /\ (pc = "dispatch" /\ pc' = "dispatch") => ready' \subseteq ready
       /\ (pc = "poll" /\ pc' = "dispatch") => ready' \subseteq poll
       /\ \A fd \in ready \ DOMAIN fds :
             (pc = "dispatch" /\ pc' # "exited" /\ Skipped(fd))
             => /\ UNCHANGED <<clients, fds, poll, openfds>>
                /\ out' = NoOut
                /\ pc' \in {"poll", "dispatch"}]_vars

\* C18 witness: in the middle of a wake-up, one pending entry's client has
\* been removed by an earlier handler of the wake-up and another pending
\* entry's client is still attached.
C18_Witness ==
    /\ pc = "dispatch"
    /\ out.detached # <<>>
    /\ \E fd \in ready : fd \notin DOMAIN fds
    /\ \E fd \in ready : fd \in HostapdFds

\* C19: no control-socket entry of the descriptor table and no presence set
\* names 'global'.
C19_GlobalNeverARadio ==
    /\ \A fd \in DOMAIN fds : fds[fd].name # "global"
    /\ \A m \in DOMAIN clients : "global" \notin clients[m]

\* C20: a step that detaches clients - an inner-watch "removed" record,
\* teardown after the loop or on SIGINT, a hang-up (the read through the
\* removed entry raising, so that no frame is handled in the step) - leaves
\* the presence record unchanged and notifies nothing.
C20_DetachKeepsPresence ==
    [][(\/ RemovedHandled
        \/ (pc # pc' /\ pc' \in {"done", "exited"})
        \/ (pc \in {"poll", "dispatch"} /\ out'.stale # <<>> /\ out'.raised = "OSError"))
       => (clients' = clients /\ out'.emitted = <<>>)]_vars

\* C20 witness: the last step detached the client of a radio on which a
\* device is still recorded as present.
C20_Witness ==
    /\ out.detached # <<>>
    /\ \E m \in DOMAIN clients :
          /\ out.detached[1].name \in clients[m]
          /\ ClientsOf(fds, out.detached[1].name) = {}

====
